---------------------------- MODULE Spec2Model ----------------------------
(***************************************************************************)
(* A model of httpobs/scanner/analyzer/headers.py: the six header          *)
(* analyzers (Content-Security-Policy, cookies, Strict-Transport-Security, *)
(* X-Content-Type-Options, X-Frame-Options, X-XSS-Protection).             *)
(*                                                                         *)
(* Header values are sequences of one-character strings, and the Python    *)
(* string methods the analyzers use (split, strip, lower, startswith, int, *)
(* slicing, `in`) are operators on such sequences, so that parsing is      *)
(* computed the way the code computes it.  One scan is one behaviour: an   *)
(* analyzer is called once on a response bundle drawn from bounded sets.   *)
(***************************************************************************)
EXTENDS Integers, Sequences, FiniteSets, TLC

VARIABLES
    pc,          \* "idle", "cookies_loop" (inside the for loop of cookies) or "done"
    analyzer,    \* the analyzer that was called ("none" before the call)
    reqs,        \* the bundle: responses.auto, responses.https, session.cookies
    preloadList, \* the hosts the HSTS preload oracle answers True for
    expectation, \* the expectation argument of the call
    output,      \* the analyzer's output dictionary (the verdict once pc = "done")
    raised,      \* "none", or the exception that escaped to the caller
    hsts,        \* cookies: strict_transport_security(reqs)['pass']
    idx,         \* cookies: position of the for loop in session.cookies
    jar          \* cookies: the jar dictionary built by the loop

vars == <<pc, analyzer, reqs, preloadList, expectation, output, raised, hsts, idx, jar>>

-----------------------------------------------------------------------------
(* Bounds of the model *)

\* Directives (';'-separated segments) of a Content-Security-Policy header.
MaxCspSegments == 2
\* Parameters (';'-separated segments) of a Strict-Transport-Security header.
MaxStsSegments == 3
\* Cookies in the session's cookie jar.
MaxCookies == 2
\* Length of the run of letters the character PadChar stands for.
PadLen == 32768

-----------------------------------------------------------------------------
(* Python values *)

\* None, and a value that is not None: nullable fields hold one of the two.
None == <<>>
Some(v) == <<v>>

\* A string as the sequence of its characters.
Chars(s) == [i \in 1..Len(s) |-> SubSeq(s, i, i)]

\* One element standing for a run of PadLen letters 'x' (an oversized token).
PadChar == "x{PadLen}"

Whitespace == {" ", "\t"}

CharWidth(c) == IF c = PadChar THEN PadLen ELSE 1

\* len(s)
RECURSIVE StrLen(_)
StrLen(s) == IF s = <<>> THEN 0 ELSE CharWidth(Head(s)) + StrLen(Tail(s))

UpperCase == Chars("ABCDEFGHIJKLMNOPQRSTUVWXYZ")
LowerCase == Chars("abcdefghijklmnopqrstuvwxyz")

LowerChar(c) ==
    IF \E i \in 1..26 : UpperCase[i] = c
    THEN LowerCase[CHOOSE i \in 1..26 : UpperCase[i] = c]
    ELSE c

\* s.lower()
Lower(s) == [i \in 1..Len(s) |-> LowerChar(s[i])]

\* s[0:n], for a string without PadChar
Slice(s, n) == SubSeq(s, 1, IF Len(s) < n THEN Len(s) ELSE n)

\* s.startswith(p)
StartsWith(s, p) == Len(s) >= Len(p) /\ SubSeq(s, 1, Len(p)) = p

\* sub in s, for strings
Contains(s, sub) ==
    \E i \in 1..(Len(s) - Len(sub) + 1) : SubSeq(s, i, i + Len(sub) - 1) = sub

\* s.lstrip(), s.rstrip(), s.strip()
RECURSIVE LStrip(_)
LStrip(s) ==
    IF s # <<>> /\ Head(s) \in Whitespace THEN LStrip(Tail(s)) ELSE s

RECURSIVE RStrip(_)
RStrip(s) ==
    IF s # <<>> /\ s[Len(s)] \in Whitespace
    THEN RStrip(SubSeq(s, 1, Len(s) - 1)) ELSE s

Strip(s) == RStrip(LStrip(s))

\* Index of the first character of s that is in set cs, 0 when there is none.
FirstIn(s, cs) ==
    IF \E i \in 1..Len(s) : s[i] \in cs
    THEN CHOOSE i \in 1..Len(s) : s[i] \in cs /\ \A j \in 1..(i - 1) : s[j] \notin cs
    ELSE 0

\* s.split(sep): the pieces between the separators, at least one piece
RECURSIVE Split(_, _)
Split(s, sep) ==
    LET i == FirstIn(s, {sep})
    IN  IF i = 0 THEN <<s>>
        ELSE <<SubSeq(s, 1, i - 1)>> \o Split(SubSeq(s, i + 1, Len(s)), sep)

\* s.split(): the runs of non-whitespace characters
RECURSIVE SplitWs(_)
SplitWs(s) ==
    LET t == LStrip(s)
        i == FirstIn(t, Whitespace)
    IN  IF t = <<>> THEN <<>>
        ELSE IF i = 0 THEN <<t>>
        ELSE <<SubSeq(t, 1, i - 1)>> \o SplitWs(SubSeq(t, i + 1, Len(t)))

\* t.split(maxsplit=1) of a string t without leading whitespace, i the index of
\* its first whitespace character (0: none)
SplitFirstWord(t, i) ==
    IF t = <<>> THEN <<>>
    ELSE IF i = 0 THEN <<t>>
    ELSE IF LStrip(SubSeq(t, i + 1, Len(t))) = <<>> THEN <<SubSeq(t, 1, i - 1)>>
    ELSE <<SubSeq(t, 1, i - 1), LStrip(SubSeq(t, i + 1, Len(t)))>>

FirstWhitespace(t) == FirstIn(t, Whitespace)

\* s.split(maxsplit=1): the first word, then the rest without leading whitespace
SplitMax1(s) == SplitFirstWord(LStrip(s), FirstWhitespace(LStrip(s)))

Digits == Chars("0123456789")

DigitVal(c) == (CHOOSE i \in 1..10 : Digits[i] = c) - 1

RECURSIVE DigitsVal(_)
DigitsVal(s) ==
    IF s = <<>> THEN 0
    ELSE 10 * DigitsVal(SubSeq(s, 1, Len(s) - 1)) + DigitVal(s[Len(s)])

\* int(s): surrounding whitespace and one sign are accepted, then only digits;
\* ok is FALSE where Python raises ValueError.
ParseInt(s) ==
    LET t == Strip(s)
        signed == t # <<>> /\ Head(t) \in {"+", "-"}
        d == IF signed THEN Tail(t) ELSE t
        ok == d # <<>> /\ \A i \in 1..Len(d) : \E k \in 1..10 : Digits[k] = d[i]
    IN  [ok |-> ok,
         val |-> IF ~ok THEN 0
                 ELSE IF signed /\ Head(t) = "-" THEN 0 - DigitsVal(d)
                 ELSE DigitsVal(d)]

\* sep.join(parts)
RECURSIVE Join(_, _)
Join(parts, sep) ==
    IF parts = <<>> THEN <<>>
    ELSE IF Len(parts) = 1 THEN parts[1]
    ELSE parts[1] \o <<sep>> \o Join(Tail(parts), sep)

\* urlparse(url).scheme: the characters before the first ':', lower-cased
UrlScheme(url) ==
    LET i == FirstIn(url, {":"})
    IN  IF i <= 1 THEN <<>> ELSE Lower(SubSeq(url, 1, i - 1))

\* urlparse(url).netloc: what follows "//" up to the next '/', '?' or '#'
UrlNetloc(url) ==
    LET i == FirstIn(url, {":"})
        rest == SubSeq(url, i + 1, Len(url))
        host == SubSeq(rest, 3, Len(rest))
        j == FirstIn(host, {"/", "?", "#"})
    IN  IF ~StartsWith(rest, <<"/", "/">>) THEN <<>>
        ELSE IF j = 0 THEN host ELSE SubSeq(host, 1, j - 1)

-----------------------------------------------------------------------------
(* Python dictionaries, lists and exceptions *)

\* A list of strings, and a string, as the values a CSP dictionary holds.
ListVal(items) == [type |-> "list", items |-> items]
StrVal(s) == [type |-> "str", items |-> s]

\* x in v: membership in a list, substring of a string
PyIn(x, v) ==
    IF v.type = "list" THEN \E i \in 1..Len(v.items) : v.items[i] = x
    ELSE Contains(v.items, x)

\* bool(v) of a list or a string
Truthy(v) == v.items # <<>>

\* len(repr(s)) of a string without quotes-in-quotes or escapes: two quotes more
ReprLen(s) == StrLen(s) + 2

RECURSIVE SumReprLen(_)
SumReprLen(items) ==
    IF items = <<>> THEN 0 ELSE ReprLen(Head(items)) + SumReprLen(Tail(items))

\* len(repr(v)): "[" + ", ".join(repr(t) ...) + "]" for a list
ValueReprLen(v) ==
    IF v.type = "str" THEN ReprLen(v.items)
    ELSE IF v.items = <<>> THEN 2
    ELSE 2 + SumReprLen(v.items) + 2 * (Len(v.items) - 1)

RECURSIVE SumEntryLen(_, _)
SumEntryLen(d, keys) ==
    IF keys = {} THEN 0
    ELSE LET k == CHOOSE k \in keys : TRUE
         IN  ReprLen(k) + 2 + ValueReprLen(d[k]) + SumEntryLen(d, keys \ {k})

\* len(str(d)) of a dictionary: "{" + ", ".join(repr(k) + ": " + repr(v) ...) + "}"
DictStrLen(d) ==
    IF DOMAIN d = {} THEN 2
    ELSE 2 + SumEntryLen(d, DOMAIN d) + 2 * (Cardinality(DOMAIN d) - 1)

\* The empty dictionary {}
EmptyDict == [k \in {} |-> None]

\* An `except:` clause catches every exception.
NoExc == "none"

-----------------------------------------------------------------------------
(* content_security_policy *)

HdrCSP == "Content-Security-Policy"

\* Lines 48-49: the dictionary of the directives, the last occurrence of a
\* directive winning; IndexError on directive[0] of an empty directive, which is
\* what a segment that holds only whitespace splits into.
csp_dict(dirs) ==
    LET last(k) == CHOOSE i \in 1..Len(dirs) :
                      /\ Lower(dirs[i][1]) = k
                      /\ \A j \in (i + 1)..Len(dirs) : Lower(dirs[j][1]) # k
    IN  IF \E i \in 1..Len(dirs) : dirs[i] = <<>>
        THEN [exc |-> "IndexError", csp |-> EmptyDict]
        ELSE [exc |-> NoExc,
              csp |-> [k \in {Lower(dirs[i][1]) : i \in 1..Len(dirs)} |->
                          IF Len(dirs[last(k)]) > 1
                          THEN ListVal(SplitWs(dirs[last(k)][2]))
                          ELSE ListVal(<<>>)]]

\* Line 47: the non-empty segments, each stripped and split at its first whitespace
csp_directives(segs) == [i \in 1..Len(segs) |-> SplitMax1(Strip(segs[i]))]

\* Lines 47-49: the header decomposed into {directive: [tokens]}
csp_parse(header) ==
    csp_dict(csp_directives(SelectSeq(Split(header, ";"), LAMBDA d : d # <<>>)))

\* Lines 56-58: default-src replicated to script-src and style-src.
csp_replicate(csp) ==
    LET c1 == csp @@ (Chars("default-src") :> StrVal(<<>>))
        c2 == c1 @@ (Chars("script-src") :> c1[Chars("default-src")])
    IN  c2 @@ (Chars("style-src") :> c2[Chars("default-src")])

\* key in d, for a dictionary
HasKey(d, k) == k \in DOMAIN d

\* Lines 61-72: the tests, first match wins.  csp and output['data'] are the same
\* dictionary, so `in output['data']` looks among its keys.
csp_tests(csp, url) ==
    IF PyIn(Chars("'unsafe-inline'"), csp[Chars("script-src")])
    THEN "csp-implemented-with-unsafe-inline"
    ELSE IF ~Truthy(csp[Chars("default-src")]) /\ ~Truthy(csp[Chars("script-src")])
    THEN "csp-implemented-with-unsafe-inline"
    ELSE IF UrlScheme(url) = Chars("https") /\ HasKey(csp, Chars("http:"))
    THEN "csp-implemented-with-insecure-scheme"
    ELSE IF HasKey(csp, Chars("'unsafe-eval'"))
    THEN "csp-implemented-with-unsafe-eval"
    ELSE IF PyIn(Chars("'unsafe-inline'"), csp[Chars("style-src")])
    THEN "csp-implemented-with-unsafe-inline-in-style-src-only"
    ELSE "csp-implemented-with-no-unsafe"

\* Line 77: the data kept only when its serialized size is below the cap.
csp_cap_data(data) == IF DictStrLen(data) < 32768 THEN data ELSE EmptyDict

\* Lines 83-84: the test passes when the result is the expectation.
csp_pass(out, exp) == [out EXCEPT !.pass = (Some(exp) = out.result)]

\* Lines 51-53: the except clause of the parse; returns without the pass check.
csp_except(out) == [out EXCEPT !.result = Some("csp-header-invalid")]

\* Lines 26-31: the output dictionary as constructed
csp_output(exp) == [data |-> None, expectation |-> exp, pass |-> FALSE, result |-> None]

\* Lines 55-86, with csp the dictionary after the replication of default-src
csp_parsed(response, exp, csp) ==
    csp_pass([csp_output(exp) EXCEPT !.data = Some(csp_cap_data(csp)),
                                     !.result = Some(csp_tests(csp, response.url))],
             exp)

\* Lines 46-86, with parsed what the try block gave
csp_present(response, exp, parsed) ==
    IF parsed.exc # NoExc
    THEN csp_except(csp_output(exp))
    ELSE csp_parsed(response, exp, csp_replicate(parsed.csp))

\* Lines 32-86, with response the auto response
csp_response(response, exp) ==
    IF HdrCSP \in DOMAIN response.headers
    THEN csp_present(response, exp, csp_parse(response.headers[HdrCSP]))
    ELSE csp_pass([csp_output(exp) EXCEPT !.result = Some("csp-not-implemented")], exp)

content_security_policy(r, exp) ==
    [exc |-> NoExc, ret |-> csp_response(r.responses.auto, exp)]

\* The default of the expectation parameter (line 8).
csp_default == "csp-implemented-with-no-unsafe"

-----------------------------------------------------------------------------
(* strict_transport_security *)

HdrSTS == "Strict-Transport-Security"

\* Line 211
SIX_MONTHS == 15552000

\* httpobs.scanner.analyzer.utils.is_hsts_preloaded: the preload oracle
is_hsts_preloaded(host) == host \in preloadList

\* bool(v) of a nullable integer field, and of a nullable boolean field
TruthyInt(v) == v # None /\ v[1] # 0
TruthyBool(v) == v # None /\ v[1]

\* Lines 213-222: the output dictionary as constructed
sts_output(exp) ==
    ("max-age" :> None) @@
    [data |-> None, expectation |-> exp, includeSubDomains |-> None, pass |-> FALSE,
     preload |-> None, preloaded |-> FALSE, result |-> Some("hsts-not-implemented")]

\* Lines 235-241: the loop over the parameters; int() raises ValueError and
\* leaves the loop with what the earlier parameters have set.
RECURSIVE sts_parameters(_, _)
sts_parameters(sts, out) ==
    IF sts = <<>> THEN [exc |-> NoExc, out |-> out]
    ELSE LET parameter == Head(sts)
             n == ParseInt(SubSeq(parameter, 9, Len(parameter)))
         IN  IF StartsWith(parameter, Chars("max-age="))
             THEN IF n.ok
                  THEN sts_parameters(Tail(sts), [out EXCEPT !["max-age"] = Some(n.val)])
                  ELSE [exc |-> "ValueError", out |-> out]
             ELSE IF parameter = Chars("includesubdomains")
             THEN sts_parameters(Tail(sts), [out EXCEPT !.includeSubDomains = Some(TRUE)])
             ELSE IF parameter = Chars("preload")
             THEN sts_parameters(Tail(sts), [out EXCEPT !.preload = Some(TRUE)])
             ELSE sts_parameters(Tail(sts), out)

\* Lines 243-249: the result from max-age
sts_max_age(out) ==
    IF TruthyInt(out["max-age"])
    THEN IF out["max-age"][1] < SIX_MONTHS
         THEN [out EXCEPT !.result = Some("hsts-implemented-max-age-less-than-six-months")]
         ELSE [out EXCEPT !.result = Some("hsts-implemented-max-age-at-least-six-months")]
    ELSE [out EXCEPT !.result = Some("hsts-header-invalid")]

\* Lines 251-255: the unset flags; output['includeubdomains'] is a lookup of a key
\* the dictionary of lines 213-222 does not have, which raises KeyError.
sts_unset(out) ==
    IF "includeubdomains" \notin DOMAIN out
    THEN [exc |-> "KeyError", out |-> out]
    ELSE LET o1 == IF ~TruthyBool(out["includeubdomains"])
                   THEN [out EXCEPT !.includeSubDomains = Some(FALSE)] ELSE out
         IN  [exc |-> NoExc,
              out |-> IF ~TruthyBool(o1.preload)
                      THEN [o1 EXCEPT !.preload = Some(FALSE)] ELSE o1]

\* Lines 243-255, with p what the loop over the parameters gave
sts_after_parameters(p) ==
    IF p.exc # NoExc THEN p ELSE sts_unset(sts_max_age(p.out))

\* Line 233: the parameters, lower-cased and stripped
sts_list(parts) == [i \in 1..Len(parts) |-> Strip(Lower(parts[i]))]

\* Lines 233-255: the body of the try
sts_try(out) ==
    sts_after_parameters(sts_parameters(sts_list(Split(out.data[1], ";")), out))

sts_except_only_ValueError(t) ==
    IF t.exc = "ValueError"
    THEN [exc |-> NoExc, out |-> [t.out EXCEPT !.result = Some("hsts-header-invalid")]]
    ELSE t

\* Lines 257-258: the bare except clause catches whatever the try raised
sts_except(t) ==
    IF t.exc # NoExc
    THEN [exc |-> NoExc, out |-> [t.out EXCEPT !.result = Some("hsts-header-invalid")]]
    ELSE t

sts_preloaded_unless_invalid(response, t) ==
    IF response # None /\ t.exc = NoExc /\ t.out.result # Some("hsts-header-invalid")
    THEN IF is_hsts_preloaded(UrlNetloc(response[1].url))
         THEN [t EXCEPT !.out.result = Some("hsts-preloaded"), !.out.preloaded = TRUE]
         ELSE t
    ELSE t

\* Lines 260-264: the preload list overrides the result, when there is a response
sts_preloaded(response, t) ==
    IF response # None /\ t.exc = NoExc
    THEN IF is_hsts_preloaded(UrlNetloc(response[1].url))
         THEN [t EXCEPT !.out.result = Some("hsts-preloaded"), !.out.preloaded = TRUE]
         ELSE t
    ELSE t

\* Lines 266-270
sts_pass(out, exp) ==
    IF out.result \in {Some("hsts-implemented-max-age-at-least-six-months"),
                       Some("hsts-preloaded"), Some(exp)}
    THEN [out EXCEPT !.pass = TRUE] ELSE out

\* Lines 225-258: no https response, a response with the header, one without
sts_header(response, out0) ==
    IF response = None
    THEN [exc |-> NoExc,
          out |-> [out0 EXCEPT !.result = Some("hsts-not-implemented-no-https")]]
    ELSE IF HdrSTS \in DOMAIN response[1].headers
    THEN sts_except(sts_try(
             [out0 EXCEPT !.data = Some(Slice(response[1].headers[HdrSTS], 1024))]))
    ELSE [exc |-> NoExc, out |-> out0]

\* Lines 266-272, or the exception that escaped
sts_return(t, exp) ==
    IF t.exc # NoExc THEN [exc |-> t.exc, ret |-> t.out]
    ELSE [exc |-> NoExc, ret |-> sts_pass(t.out, exp)]

strict_transport_security(r, exp) ==
    sts_return(sts_preloaded(r.responses.https,
                             sts_header(r.responses.https, sts_output(exp))),
               exp)

\* The default of the expectation parameter (line 194)
sts_default == "hsts-implemented-max-age-at-least-six-months"

-----------------------------------------------------------------------------
(* x_content_type_options *)

HdrXCTO == "X-Content-Type-Options"

x_content_type_options(r, exp) ==
    LET out0 == [data |-> None, expectation |-> exp, pass |-> FALSE, result |-> None]
        response == r.responses.auto
        data == Slice(response.headers[HdrXCTO], 256)
        o1 == IF HdrXCTO \in DOMAIN response.headers
              THEN [out0 EXCEPT
                      !.data = Some(data),
                      !.result = IF Lower(data) = Chars("nosniff")
                                 THEN Some("x-content-type-options-nosniff")
                                 ELSE Some("x-content-type-options-header-invalid")]
              ELSE [out0 EXCEPT !.result = Some("x-content-type-options-not-implemented")]
    IN  [exc |-> NoExc, ret |-> [o1 EXCEPT !.pass = (Some(exp) = o1.result)]]

-----------------------------------------------------------------------------
(* x_frame_options *)

HdrXFO == "X-Frame-Options"

\* Lines 340-350: the result the X-Frame-Options header alone gives
xfo_header(r, exp) ==
    LET out0 == [data |-> None, expectation |-> exp, pass |-> FALSE, result |-> None]
        response == r.responses.auto
        data == Slice(response.headers[HdrXFO], 1024)
    IN  IF HdrXFO \in DOMAIN response.headers
        THEN [out0 EXCEPT
                !.data = Some(data),
                !.result = IF Lower(data) \in {Chars("deny"), Chars("sameorigin")}
                           THEN Some("x-frame-options-sameorigin-or-deny")
                           ELSE IF Contains(Lower(data), Chars("allow-from "))
                           THEN Some("x-frame-options-allow-from-origin")
                           ELSE Some("x-frame-options-header-invalid")]
        ELSE [out0 EXCEPT !.result = Some("x-frame-options-not-implemented")]

\* Lines 353-356: frame-ancestors in the data of the CSP verdict overrides
xfo_via_csp(out, csp) ==
    IF csp.data # None /\ DOMAIN csp.data[1] # {}
    THEN IF HasKey(csp.data[1], Chars("frame-ancestors"))
         THEN [out EXCEPT !.result = Some("x-frame-options-implemented-via-csp")]
         ELSE out
    ELSE out

\* Lines 358-362
xfo_pass(out, exp) ==
    IF out.result \in {Some("x-frame-options-sameorigin-or-deny"),
                       Some("x-frame-options-implemented-via-csp"), Some(exp)}
    THEN [out EXCEPT !.pass = TRUE] ELSE out

\* Lines 352-364, with out the header-derived output and csp what the CSP
\* analyzer returned
xfo_return(out, csp, exp) ==
    IF csp.exc # NoExc THEN [exc |-> csp.exc, ret |-> out]
    ELSE [exc |-> NoExc, ret |-> xfo_pass(xfo_via_csp(out, csp.ret), exp)]

x_frame_options(r, exp) ==
    xfo_return(xfo_header(r, exp), content_security_policy(r, csp_default), exp)

-----------------------------------------------------------------------------
(* x_xss_protection *)

HdrXXSSP == "X-XSS-Protection"

\* Line 406: {key: value}, the value None for an attribute without '='; the last
\* occurrence of a key wins.
xxssp_dict(xxssp) ==
    LET ds == Split(xxssp, ";")
        key(d) == Strip(Split(d, "=")[1])
        val(d) == IF \E i \in 1..Len(d) : d[i] = "="
                  THEN Some(Strip(Split(d, "=")[2])) ELSE None
        last(k) == CHOOSE i \in 1..Len(ds) :
                      key(ds[i]) = k /\ \A j \in (i + 1)..Len(ds) : key(ds[j]) # k
    IN  [k \in {key(ds[i]) : i \in 1..Len(ds)} |-> val(ds[last(k)])]

\* d.get(k) of a dictionary of nullable values: None when the key is missing
DictGet(d, k) == IF k \in DOMAIN d THEN d[k] ELSE None

\* response.headers.get(name): None when the header is missing
HeaderGet(headers, name) == IF name \in DOMAIN headers THEN Some(headers[name]) ELSE None

\* Lines 393-419: the result the X-XSS-Protection header alone gives; returned is
\* TRUE where the code returns from inside the except clause (line 409).
xxssp_header(r, exp) ==
    LET out0 == [data |-> None, expectation |-> exp, pass |-> FALSE, result |-> None]
        response == r.responses.auto
        xxssp == HeaderGet(response.headers, HdrXXSSP)
        enabled == xxssp[1][1] = "1"
        d == xxssp_dict(xxssp[1])
    IN  IF xxssp # None /\ xxssp # Some(<<>>)
        THEN IF xxssp[1][1] \notin {"0", "1"}
             THEN [returned |-> TRUE,
                   out |-> [out0 EXCEPT !.data = Some(Slice(xxssp[1], 256)),
                                        !.result = Some("x-xss-protection-header-invalid")]]
             ELSE [returned |-> FALSE,
                   out |-> [out0 EXCEPT
                              !.data = Some(Slice(xxssp[1], 256)),
                              !.result =
                                  IF enabled /\ DictGet(d, Chars("mode")) = Some(Chars("block"))
                                  THEN Some("x-xss-protection-enabled-mode-block")
                                  ELSE IF enabled THEN Some("x-xss-protection-enabled")
                                  ELSE Some("x-xss-protection-disabled")]]
        ELSE [returned |-> FALSE,
              out |-> [out0 EXCEPT !.result = Some("x-xss-protection-not-implemented")]]

\* Lines 421-423: 'enabled' in output['result'], a TypeError were the result None
xxssp_enabled(out) ==
    IF out.result = None THEN [exc |-> "TypeError", ret |-> out]
    ELSE [exc |-> NoExc,
          ret |-> IF Contains(Chars(out.result[1]), Chars("enabled"))
                  THEN [out EXCEPT !.pass = TRUE] ELSE out]

\* Lines 425-429: a passing CSP stands in for a header that does not pass
xxssp_csp_fallback(out, csp) ==
    IF csp.exc # NoExc THEN [exc |-> csp.exc, ret |-> out]
    ELSE IF csp.ret.pass
    THEN [exc |-> NoExc,
          ret |-> [out EXCEPT !.pass = TRUE,
                              !.result = Some("x-xss-protection-not-needed-due-to-csp")]]
    ELSE [exc |-> NoExc, ret |-> out]

\* Lines 421-431, with e what the test of line 422 gave
xxssp_after_enabled(e, r) ==
    IF e.exc # NoExc \/ e.ret.pass # FALSE THEN e
    ELSE xxssp_csp_fallback(e.ret, content_security_policy(r, csp_default))

xxssp_after_header_no_return(h, r) == xxssp_after_enabled(xxssp_enabled(h.out), r)

\* Lines 409 and 421-431, with h what the header gave
xxssp_after_header(h, r) ==
    IF h.returned THEN [exc |-> NoExc, ret |-> h.out]
    ELSE xxssp_after_enabled(xxssp_enabled(h.out), r)

x_xss_protection(r, exp) == xxssp_after_header(xxssp_header(r, exp), r)

-----------------------------------------------------------------------------
(* cookies *)

\* Lines 117-121: the order of how bad the various results are
goodness ==
    << "cookies-without-secure-flag-but-protected-by-hsts",
       "cookies-without-secure-flag",
       "cookies-session-without-secure-flag-but-protected-by-hsts",
       "cookies-session-without-secure-flag",
       "cookies-session-without-httponly-flag" >>

\* order.index(x)
Index(order, x) == CHOOSE i \in 1..Len(order) : order[i] = x

\* httpobs.scanner.analyzer.utils.only_if_worse: the new result when there is no
\* old one or when the new one is strictly worse in the order, else the old one
only_if_worse(new_result, old_result, order) ==
    IF old_result = None THEN Some(new_result)
    ELSE IF Index(order, new_result) > Index(order, old_result[1]) THEN Some(new_result)
    ELSE old_result

\* Lines 135-139: the httponly attribute, from cookie._rest when it is missing
cookie_httponly(cookie) ==
    IF cookie.httponly # None THEN cookie
    ELSE [cookie EXCEPT !.httponly =
              Some(\E key \in cookie.rest : Lower(key) = Chars("httponly"))]

\* Line 146: is it a session identifier?
sessionid(cookie) ==
    \E i \in {Chars("login"), Chars("sess")} : Contains(Lower(cookie.name), i)

\* Lines 142-143: the attributes kept in the jar
jar_entry(cookie) ==
    ("max-age" :> None) @@
    [domain |-> cookie.domain, expires |-> cookie.expires, httponly |-> cookie.httponly,
     path |-> cookie.path, port |-> cookie.port, secure |-> cookie.secure]

\* Lines 150-158: a cookie without Secure
cookie_secure(cookie, hstsPass, result) ==
    IF ~cookie.secure /\ hstsPass
    THEN only_if_worse("cookies-without-secure-flag-but-protected-by-hsts", result, goodness)
    ELSE IF ~cookie.secure
    THEN only_if_worse("cookies-without-secure-flag", result, goodness)
    ELSE result

cookie_session_secure_no_session_test(cookie, hstsPass, result) ==
    IF ~cookie.secure /\ hstsPass
    THEN only_if_worse("cookies-session-without-secure-flag-but-protected-by-hsts",
                       result, goodness)
    ELSE IF ~cookie.secure
    THEN only_if_worse("cookies-session-without-secure-flag", result, goodness)
    ELSE result

\* Lines 160-168: a session cookie without Secure
cookie_session_secure(cookie, hstsPass, result) ==
    IF sessionid(cookie) /\ ~cookie.secure /\ hstsPass
    THEN only_if_worse("cookies-session-without-secure-flag-but-protected-by-hsts",
                       result, goodness)
    ELSE IF sessionid(cookie) /\ ~cookie.secure
    THEN only_if_worse("cookies-session-without-secure-flag", result, goodness)
    ELSE result

cookie_session_httponly_any_session(cookie, result) ==
    IF sessionid(cookie)
    THEN only_if_worse("cookies-session-without-httponly-flag", result, goodness)
    ELSE result

\* Lines 170-174: a session cookie without HttpOnly
cookie_session_httponly(cookie, result) ==
    IF sessionid(cookie) /\ ~TruthyBool(cookie.httponly)
    THEN only_if_worse("cookies-session-without-httponly-flag", result, goodness)
    ELSE result

\* Lines 145-174: the three checks of one iteration, in the order of the code
cookie_checks(cookie, hstsPass, result) ==
    cookie_session_httponly(cookie,
        cookie_session_secure(cookie, hstsPass,
            cookie_secure(cookie, hstsPass, result)))

\* len(repr(v)) of True or False, and of None or a string
BoolReprLen(b) == IF b THEN 4 ELSE 5
OptReprLen(v) == IF v = None THEN 4 ELSE ReprLen(v[1])

\* len(str(e)) of one entry of the jar: seven keys, their values, the punctuation
EntryStrLen(e) ==
    2 + 2 * 6
      + (ReprLen(Chars("domain")) + 2 + OptReprLen(e.domain))
      + (ReprLen(Chars("expires")) + 2 + OptReprLen(e.expires))
      + (ReprLen(Chars("httponly")) + 2 + BoolReprLen(TruthyBool(e.httponly)))
      + (ReprLen(Chars("max-age")) + 2 + OptReprLen(e["max-age"]))
      + (ReprLen(Chars("path")) + 2 + OptReprLen(e.path))
      + (ReprLen(Chars("port")) + 2 + OptReprLen(e.port))
      + (ReprLen(Chars("secure")) + 2 + BoolReprLen(e.secure))

RECURSIVE SumJarLen(_, _)
SumJarLen(j, names) ==
    IF names = {} THEN 0
    ELSE LET n == CHOOSE n \in names : TRUE
         IN  ReprLen(n) + 2 + EntryStrLen(j[n]) + SumJarLen(j, names \ {n})

\* len(str(jar))
JarStrLen(j) ==
    IF DOMAIN j = {} THEN 2
    ELSE 2 + SumJarLen(j, DOMAIN j) + 2 * (Cardinality(DOMAIN j) - 1)

\* Line 177: the jar kept only when its serialized size is below the cap
cookies_cap_data(j) == IF JarStrLen(j) < 32768 THEN j ELSE EmptyDict

\* Lines 179-181: no check has fired
cookies_default_result(out) ==
    IF out.result = None \/ out.result = Some("")
    THEN [out EXCEPT !.result = Some("cookies-secure-with-httponly-sessions")]
    ELSE out

\* Lines 183-185
cookies_pass(out, exp) ==
    IF out.result \in {Some("cookies-not-found"), Some(exp)}
    THEN [out EXCEPT !.pass = TRUE] ELSE out

\* The default of the expectation parameter (line 90)
cookies_default == "cookies-secure-with-httponly-sessions"

-----------------------------------------------------------------------------
(* The inputs of a scan *)

\* All sequences of at most n elements of S
SeqsUpTo(S, n) == UNION {[1..k -> S] : k \in 0..n}

\* The header built from its ';'-separated segments
HeaderOf(segs) == Join(segs, ";")

\* A header mapping with at most the one header
NoHeaders == [k \in {} |-> <<>>]
Header(name, value) == IF value = None THEN NoHeaders ELSE (name :> value[1])

CspSegments ==
    { Chars("default-src 'self'"),
      Chars(" script-src 'unsafe-inline'"),
      Chars(" script-src 'self' 'unsafe-eval'"),
      Chars(" img-src http:"),
      Chars(" style-src 'unsafe-inline'"),
      Chars(" frame-ancestors 'none'"),
      Chars(" "),
      Chars(" Default-Src ") \o <<PadChar>>,
      Chars("http:") }

\* None: the response carries no Content-Security-Policy header
CspHeaders ==
    {None} \cup {Some(HeaderOf(segs)) : segs \in SeqsUpTo(CspSegments, MaxCspSegments)}

StsSegments ==
    { Chars("max-age=15552000"),
      Chars("max-age=15551999"),
      Chars(" includeSubDomains"),
      Chars(" preload"),
      Chars("max-age=0"),
      Chars("max-age=1x"),
      Chars(" foo") }

StsHeaders ==
    {None} \cup {Some(HeaderOf(segs)) : segs \in SeqsUpTo(StsSegments, MaxStsSegments)}

XctoHeaders == {None, Some(Chars("nosniff")), Some(Chars("NoSniff")), Some(Chars("sniff"))}

XfoHeaders ==
    {None, Some(Chars("DENY")), Some(Chars("ALLOW-FROM https://example.com")),
     Some(Chars("bogus"))}

XxsspHeaders ==
    {None, Some(Chars("0")), Some(Chars("1")), Some(Chars("1; mode=block")),
     Some(Chars("2; mode=block"))}

AutoUrls == {Chars("http://example.com/"), Chars("https://example.com/")}

HttpsUrl == Chars("https://example.com/")

PreloadLists == {{}, {Chars("example.com")}}

\* A cookie of http.cookiejar: httponly is None when the object has no such
\* attribute, rest holds the keys of cookie._rest
Cookie(name, secure, httponly, rest) ==
    [name |-> name, secure |-> secure, httponly |-> httponly, rest |-> rest,
     domain |-> Some(Chars("example.com")), expires |-> None,
     path |-> Some(Chars("/")), port |-> None]

CookieUniverse ==
    {Cookie(n, sec, None, rest) :
        n \in {Chars("sessionid"), Chars("theme")},
        sec \in BOOLEAN,
        rest \in {{}, {Chars("HttpOnly")}}}
    \cup {Cookie(Chars("LoginToken"), FALSE, Some(TRUE), {})}

Jars == SeqsUpTo(CookieUniverse, MaxCookies)

\* None: the site does not answer over https
HttpsResponses ==
    {None} \cup {Some([url |-> HttpsUrl, headers |-> Header(HdrSTS, h)]) : h \in StsHeaders}

\* The https responses the cookie jars are combined with
HttpsResponsesOfCookies ==
    {None, Some([url |-> HttpsUrl, headers |-> NoHeaders]),
     Some([url |-> HttpsUrl, headers |-> Header(HdrSTS, Some(Chars("max-age=15552000")))])}

Bundle(auto, https, cookieSeq) ==
    [responses |-> [auto |-> auto, https |-> https], session |-> [cookies |-> cookieSeq]]

AutoResponse(url, headers) == [url |-> url, headers |-> headers]

CspExpectations ==
    { "csp-implemented-with-no-unsafe",
      "csp-implemented-with-unsafe-inline-in-style-src-only",
      "csp-implemented-with-unsafe-inline",
      "csp-implemented-with-unsafe-eval",
      "csp-implemented-with-insecure-scheme",
      "csp-header-invalid",
      "csp-not-implemented" }

StsExpectations == {sts_default, "hsts-header-invalid", "hsts-not-implemented"}

XctoExpectations ==
    { "x-content-type-options-nosniff", "x-content-type-options-not-implemented",
      "x-content-type-options-header-invalid" }

XfoExpectations == {"x-frame-options-sameorigin-or-deny", "x-frame-options-header-invalid"}

XxsspExpectations == {"x-xss-protection-1-mode-block", "x-xss-protection-disabled"}

CookiesExpectations == {cookies_default, "cookies-without-secure-flag"}

-----------------------------------------------------------------------------
(* The scan *)

Init ==
    /\ pc = "idle"
    /\ analyzer = "none"
    /\ reqs = Bundle(AutoResponse(HttpsUrl, NoHeaders), None, <<>>)
    /\ preloadList \in PreloadLists
    /\ expectation = ""
    /\ output = None
    /\ raised = NoExc
    /\ hsts = FALSE
    /\ idx = 0
    /\ jar = EmptyDict

\* What a call returned: the verdict, or the exception that escaped
Returns(res) == output' = res.ret /\ raised' = res.exc

\* A call of an analyzer is one step: the bundle and the expectation are its
\* inputs, the verdict it returns (or the exception that escapes) its outcome.

call_content_security_policy ==
    /\ pc = "idle"
    /\ \E url \in AutoUrls, csp \in CspHeaders, exp \in CspExpectations :
          LET r == Bundle(AutoResponse(url, Header(HdrCSP, csp)), None, <<>>)
          IN  /\ analyzer' = "content_security_policy"
              /\ reqs' = r
              /\ expectation' = exp
              /\ Returns(content_security_policy(r, exp))
    /\ pc' = "done"
    /\ UNCHANGED <<preloadList, hsts, idx, jar>>

call_strict_transport_security ==
    /\ pc = "idle"
    /\ \E https \in HttpsResponses, exp \in StsExpectations :
          LET r == Bundle(AutoResponse(HttpsUrl, NoHeaders), https, <<>>)
          IN  /\ analyzer' = "strict_transport_security"
              /\ reqs' = r
              /\ expectation' = exp
              /\ Returns(strict_transport_security(r, exp))
    /\ pc' = "done"
    /\ UNCHANGED <<preloadList, hsts, idx, jar>>

call_x_content_type_options ==
    /\ pc = "idle"
    /\ \E url \in AutoUrls, h \in XctoHeaders, exp \in XctoExpectations :
          LET r == Bundle(AutoResponse(url, Header(HdrXCTO, h)), None, <<>>)
          IN  /\ analyzer' = "x_content_type_options"
              /\ reqs' = r
              /\ expectation' = exp
              /\ Returns(x_content_type_options(r, exp))
    /\ pc' = "done"
    /\ UNCHANGED <<preloadList, hsts, idx, jar>>

call_x_frame_options ==
    /\ pc = "idle"
    /\ \E csp \in CspHeaders, h \in XfoHeaders, exp \in XfoExpectations :
          LET r == Bundle(AutoResponse(HttpsUrl, Header(HdrCSP, csp) @@ Header(HdrXFO, h)),
                          None, <<>>)
          IN  /\ analyzer' = "x_frame_options"
              /\ reqs' = r
              /\ expectation' = exp
              /\ Returns(x_frame_options(r, exp))
    /\ pc' = "done"
    /\ UNCHANGED <<preloadList, hsts, idx, jar>>

call_x_xss_protection ==
    /\ pc = "idle"
    /\ \E url \in AutoUrls, csp \in CspHeaders, h \in XxsspHeaders,
          exp \in XxsspExpectations :
          LET r == Bundle(AutoResponse(url, Header(HdrCSP, csp) @@ Header(HdrXXSSP, h)),
                          None, <<>>)
          IN  /\ analyzer' = "x_xss_protection"
              /\ reqs' = r
              /\ expectation' = exp
              /\ Returns(x_xss_protection(r, exp))
    /\ pc' = "done"
    /\ UNCHANGED <<preloadList, hsts, idx, jar>>

\* Lines 108-113: the output dictionary as constructed
cookies_output(exp) == [data |-> None, expectation |-> exp, pass |-> FALSE, result |-> None]

\* Lines 108-131, with h what strict_transport_security returned
cookies_start(r, exp, h) ==
    IF h.exc # NoExc
    THEN /\ pc' = "done" /\ raised' = h.exc /\ output' = cookies_output(exp)
         /\ UNCHANGED <<hsts, idx>>
    ELSE IF r.session.cookies = <<>>
    THEN /\ pc' = "done"
         /\ output' = cookies_pass(
                [cookies_output(exp) EXCEPT !.result = Some("cookies-not-found")], exp)
         /\ hsts' = h.ret.pass
         /\ UNCHANGED <<raised, idx>>
    ELSE /\ pc' = "cookies_loop"
         /\ output' = cookies_output(exp)
         /\ hsts' = h.ret.pass
         /\ idx' = 1
         /\ UNCHANGED raised

\* cookies, lines 108-131: the HSTS status, then the empty jar or the loop
cookies_begin ==
    /\ pc = "idle"
    /\ \E https \in HttpsResponsesOfCookies, cs \in Jars, exp \in CookiesExpectations :
          LET r == Bundle(AutoResponse(HttpsUrl, NoHeaders), https, cs)
          IN  /\ analyzer' = "cookies"
              /\ reqs' = r
              /\ expectation' = exp
              /\ cookies_start(r, exp, strict_transport_security(r, sts_default))
    /\ UNCHANGED <<preloadList, jar>>

\* cookies, lines 133-174: one iteration of the loop
cookies_loop ==
    /\ pc = "cookies_loop"
    /\ idx <= Len(reqs.session.cookies)
    /\ LET cookie == cookie_httponly(reqs.session.cookies[idx])
       IN  /\ reqs' = [reqs EXCEPT !.session.cookies[idx] = cookie]
           /\ jar' = (cookie.name :> jar_entry(cookie)) @@ jar
           /\ output' = [output EXCEPT !.result = cookie_checks(cookie, hsts, output.result)]
    /\ idx' = idx + 1
    /\ UNCHANGED <<pc, analyzer, preloadList, expectation, raised, hsts>>

\* cookies, lines 176-187: after the loop
cookies_end ==
    /\ pc = "cookies_loop"
    /\ idx > Len(reqs.session.cookies)
    /\ output' = cookies_pass(
           cookies_default_result([output EXCEPT !.data = Some(cookies_cap_data(jar))]),
           expectation)
    /\ pc' = "done"
    /\ UNCHANGED <<analyzer, reqs, preloadList, expectation, raised, hsts, idx, jar>>

Next ==
    \/ call_content_security_policy
    \/ call_strict_transport_security
    \/ call_x_content_type_options
    \/ call_x_frame_options
    \/ call_x_xss_protection
    \/ cookies_begin
    \/ cookies_loop
    \/ cookies_end

Spec == Init /\ [][Next]_vars

-----------------------------------------------------------------------------
(* Properties *)

\* The call of analyzer a has returned a verdict.
Returned(a) == pc = "done" /\ analyzer = a /\ raised = NoExc

\* The result-code sets of the analyzers
CspResults ==
    { "csp-implemented-with-no-unsafe",
      "csp-implemented-with-unsafe-inline-in-style-src-only",
      "csp-implemented-with-unsafe-inline",
      "csp-implemented-with-unsafe-eval",
      "csp-implemented-with-insecure-scheme",
      "csp-header-invalid",
      "csp-not-implemented" }

CookiesResults ==
    { "cookies-secure-with-httponly-sessions",
      "cookies-without-secure-flag-but-protected-by-hsts",
      "cookies-session-without-secure-flag-but-protected-by-hsts",
      "cookies-without-secure-flag",
      "cookies-session-without-secure-flag",
      "cookies-session-without-httponly-flag",
      "cookies-not-found" }

StsResults ==
    { "hsts-implemented-max-age-at-least-six-months",
      "hsts-implemented-max-age-less-than-six-months",
      "hsts-not-implemented-no-https",
      "hsts-not-implemented",
      "hsts-header-invalid",
      "hsts-preloaded" }

XctoResults ==
    { "x-content-type-options-nosniff", "x-content-type-options-not-implemented",
      "x-content-type-options-header-invalid" }

XfoResults ==
    { "x-frame-options-sameorigin-or-deny", "x-frame-options-allow-from-origin",
      "x-frame-options-implemented-via-csp", "x-frame-options-not-implemented",
      "x-frame-options-header-invalid" }

XxsspResults ==
    { "x-xss-protection-enabled-mode-block", "x-xss-protection-enabled",
      "x-xss-protection-not-needed-due-to-csp", "x-xss-protection-disabled",
      "x-xss-protection-not-implemented", "x-xss-protection-header-invalid" }

ResultsOf(a) ==
    CASE a = "content_security_policy" -> CspResults
      [] a = "cookies" -> CookiesResults
      [] a = "strict_transport_security" -> StsResults
      [] a = "x_content_type_options" -> XctoResults
      [] a = "x_frame_options" -> XfoResults
      [] a = "x_xss_protection" -> XxsspResults

\* The Strict-Transport-Security header of the https response, when there is one
StsHeaderPresent ==
    reqs.responses.https # None /\ HdrSTS \in DOMAIN reqs.responses.https[1].headers

StsHeaderValue == reqs.responses.https[1].headers[HdrSTS]

\* The parameters of the header, lower-cased and trimmed
StsTokens == sts_list(Split(Slice(StsHeaderValue, 1024), ";"))

\* What the loop over the parameters makes of the header
StsParsed == sts_parameters(StsTokens, sts_output(expectation))

HttpsHostPreloaded ==
    reqs.responses.https # None
    /\ UrlNetloc(reqs.responses.https[1].url) \in preloadList

\* C1: with an https response carrying a Strict-Transport-Security header and a
\* host that is not preloaded, a header whose max-age parses to a non-zero value
\* gives hsts-implemented-max-age-at-least-six-months (and pass) when that value
\* is >= 15552000, and hsts-implemented-max-age-less-than-six-months when it is
\* smaller, whatever other tokens the header holds.
C1_MaxAgeDecidesResult ==
    (/\ Returned("strict_transport_security")
     /\ StsHeaderPresent
     /\ ~HttpsHostPreloaded
     /\ StsParsed.exc = NoExc
     /\ TruthyInt(StsParsed.out["max-age"]))
    => IF StsParsed.out["max-age"][1] >= 15552000
       THEN /\ output.result = Some("hsts-implemented-max-age-at-least-six-months")
            /\ output.pass = TRUE
       ELSE output.result = Some("hsts-implemented-max-age-less-than-six-months")

\* The Content-Security-Policy header of the auto response, when there is one
CspHeaderPresent == HdrCSP \in DOMAIN reqs.responses.auto.headers

\* The policy the header parses to
CspPolicy == csp_parse(reqs.responses.auto.headers[HdrCSP])

CspHeaderParsed == CspHeaderPresent /\ CspPolicy.exc = NoExc

\* The tokens of directive d of the policy, none when the policy lacks it
TokensOf(policy, d) ==
    IF Chars(d) \in DOMAIN policy THEN policy[Chars(d)].items ELSE <<>>

\* script-src or style-src when present, else default-src
EffectiveTokens(policy, d) ==
    IF Chars(d) \in DOMAIN policy THEN policy[Chars(d)].items
    ELSE TokensOf(policy, "default-src")

InTokens(tok, tokens) == \E i \in 1..Len(tokens) : tokens[i] = Chars(tok)

\* tok is among the values of some directive of the policy
AmongValues(tok, policy) == \E d \in DOMAIN policy : InTokens(tok, policy[d].items)

\* The decision tree of six rules, the first match winning
DecisionTree(policy, url) ==
    IF InTokens("'unsafe-inline'", EffectiveTokens(policy, "script-src"))
    THEN "csp-implemented-with-unsafe-inline"
    ELSE IF TokensOf(policy, "default-src") = <<>>
            /\ EffectiveTokens(policy, "script-src") = <<>>
    THEN "csp-implemented-with-unsafe-inline"
    ELSE IF UrlScheme(url) = Chars("https") /\ AmongValues("http:", policy)
    THEN "csp-implemented-with-insecure-scheme"
    ELSE IF AmongValues("'unsafe-eval'", policy)
    THEN "csp-implemented-with-unsafe-eval"
    ELSE IF InTokens("'unsafe-inline'", EffectiveTokens(policy, "style-src"))
    THEN "csp-implemented-with-unsafe-inline-in-style-src-only"
    ELSE "csp-implemented-with-no-unsafe"

\* C2: for every Content-Security-Policy header that parses, the result is the
\* outcome of the six-rule decision tree: unsafe-inline in the effective
\* script-src, no tokens for default-src and script-src, http: among the values
\* under an https URL, unsafe-eval among the values, unsafe-inline in the
\* effective style-src, else no-unsafe.
C2_ResultIsDecisionTree ==
    (Returned("content_security_policy") /\ CspHeaderParsed)
    => output.result = Some(DecisionTree(CspPolicy.csp, reqs.responses.auto.url))

\* C3: every analyzer returns a verdict, no error escapes to the caller, and the
\* verdict's result is not null and is one of the analyzer's result codes; so on
\* the unparsable-header returns of content_security_policy and x_xss_protection
\* and on the exception path of strict_transport_security.
C3_VerdictWellFormed ==
    pc = "done"
    => /\ raised = NoExc
       /\ output.result # None
       /\ output.result[1] \in ResultsOf(analyzer)

\* The exception path of strict_transport_security has been taken.
C3_Witness ==
    /\ Returned("strict_transport_security")
    /\ StsHeaderPresent
    /\ StsParsed.exc = "ValueError"
    /\ output.result = Some("hsts-header-invalid")

\* C4: with an https response whose host is in the preload list the verdict is
\* hsts-preloaded, preloaded and passing for every expectation, whether the
\* header is absent, valid or invalid; without an https response the result is
\* hsts-not-implemented-no-https and preloaded is false.
C4_PreloadOverrides ==
    Returned("strict_transport_security")
    => /\ HttpsHostPreloaded
          => /\ output.result = Some("hsts-preloaded")
             /\ output.preloaded = TRUE
             /\ output.pass = TRUE
       /\ reqs.responses.https = None
          => /\ output.result = Some("hsts-not-implemented-no-https")
             /\ output.preloaded = FALSE

\* A preloaded host whose header does not parse, under an expectation that is
\* not the result.
C4_Witness ==
    /\ Returned("strict_transport_security")
    /\ HttpsHostPreloaded
    /\ StsHeaderPresent
    /\ StsParsed.exc = "ValueError"
    /\ expectation = "hsts-not-implemented"
    /\ output.result = Some("hsts-preloaded")
    /\ output.pass = TRUE

\* The cookies of the session
Cookies == reqs.session.cookies

AllSecure == \A i \in 1..Len(Cookies) : Cookies[i].secure

NoSessionLacksHttpOnly ==
    \A i \in 1..Len(Cookies) :
        sessionid(Cookies[i]) => TruthyBool(cookie_httponly(Cookies[i]).httponly)

\* C5 as stated: for any cookie jar where every cookie is Secure and no
\* session-named cookie lacks HttpOnly, the result is
\* cookies-secure-with-httponly-sessions, whatever the HSTS verdict is.
C5_AnyJar ==
    (Returned("cookies") /\ AllSecure /\ NoSessionLacksHttpOnly)
    => output.result = Some("cookies-secure-with-httponly-sessions")

\* C5, amended: for any cookie jar that is not empty, where every cookie is
\* Secure and no session-named cookie lacks HttpOnly, the result is
\* cookies-secure-with-httponly-sessions, whatever the HSTS verdict is.
C5_NonEmptyJar ==
    (Returned("cookies") /\ Cookies # <<>> /\ AllSecure /\ NoSessionLacksHttpOnly)
    => output.result = Some("cookies-secure-with-httponly-sessions")

\* A jar with a Secure session cookie that has HttpOnly, on a preloaded host.
C5_Witness ==
    /\ Returned("cookies")
    /\ Cookies # <<>>
    /\ AllSecure
    /\ NoSessionLacksHttpOnly
    /\ \E i \in 1..Len(Cookies) : sessionid(Cookies[i])
    /\ hsts = TRUE
    /\ output.result = Some("cookies-secure-with-httponly-sessions")

\* The negative conditions a cookie fires
Fired(cookie, hstsPass) ==
    {c \in {"cookies-without-secure-flag-but-protected-by-hsts"} :
        ~cookie.secure /\ hstsPass}
    \cup {c \in {"cookies-without-secure-flag"} : ~cookie.secure /\ ~hstsPass}
    \cup {c \in {"cookies-session-without-secure-flag-but-protected-by-hsts"} :
            sessionid(cookie) /\ ~cookie.secure /\ hstsPass}
    \cup {c \in {"cookies-session-without-secure-flag"} :
            sessionid(cookie) /\ ~cookie.secure /\ ~hstsPass}
    \cup {c \in {"cookies-session-without-httponly-flag"} :
            sessionid(cookie) /\ ~TruthyBool(cookie_httponly(cookie).httponly)}

\* The conditions fired by the first n cookies, as a set: their order is gone
FiredBy(n) == UNION {Fired(Cookies[i], hsts) : i \in 1..n}

\* The worst of a set of conditions under the severity order, None of no condition
Worst(conds) ==
    IF conds = {} THEN None
    ELSE Some(CHOOSE c \in conds : \A d \in conds : Index(goodness, d) <= Index(goodness, c))

\* C6: while the cookies of a non-empty jar are processed the accumulator is the
\* worst condition fired so far under the severity order (so it only ever moves
\* to a strictly worse value), the final result is the worst condition fired by
\* any cookie, which is the same for every permutation of the jar, and a single
\* session cookie without Secure but with HttpOnly, HSTS not passing, gives
\* cookies-session-without-secure-flag.
C6_WorstConditionWins ==
    /\ (analyzer = "cookies" /\ pc = "cookies_loop")
       => output.result = Worst(FiredBy(idx - 1))
    /\ (Returned("cookies") /\ Cookies # <<>>)
       => /\ FiredBy(Len(Cookies)) # {}
             => output.result = Worst(FiredBy(Len(Cookies)))
          /\ (/\ Len(Cookies) = 1
              /\ sessionid(Cookies[1])
              /\ ~Cookies[1].secure
              /\ TruthyBool(Cookies[1].httponly)
              /\ ~hsts)
             => output.result = Some("cookies-session-without-secure-flag")

\* The worst condition came first: a session cookie without HttpOnly, then a
\* cookie that only lacks Secure.
C6_Witness ==
    /\ Returned("cookies")
    /\ Len(Cookies) = 2
    /\ sessionid(Cookies[1]) /\ Cookies[1].secure /\ ~TruthyBool(Cookies[1].httponly)
    /\ ~sessionid(Cookies[2]) /\ ~Cookies[2].secure
    /\ output.result = Some("cookies-session-without-httponly-flag")

\* The result the X-Frame-Options header alone gives
XfoHeaderResult == xfo_header(reqs, expectation).result

\* C7: when the Content-Security-Policy header parses to a policy with a
\* frame-ancestors directive, whatever the size of the policy, the result is
\* x-frame-options-implemented-via-csp and the test passes; otherwise the
\* header-derived result is kept.
C7_FrameAncestorsOverrides ==
    Returned("x_frame_options")
    => IF CspHeaderParsed /\ HasKey(CspPolicy.csp, Chars("frame-ancestors"))
       THEN /\ output.result = Some("x-frame-options-implemented-via-csp")
            /\ output.pass = TRUE
       ELSE output.result = XfoHeaderResult

\* The X-XSS-Protection header of the auto response, None when it is missing
XxsspHeaderValue == HeaderGet(reqs.responses.auto.headers, HdrXXSSP)

\* C8: pass is true exactly when the result is x-xss-protection-enabled,
\* -enabled-mode-block or -not-needed-due-to-csp, whatever the expectation; the
\* result is -not-needed-due-to-csp exactly when the header-derived result is
\* -not-implemented or -disabled and the CSP analyzer passes under its default
\* expectation; a header whose first character is neither 0 nor 1 gives
\* -header-invalid, not passing, without the CSP fallback.
C8_PassAndFallback ==
    Returned("x_xss_protection")
    => /\ output.pass
          <=> output.result \in {Some("x-xss-protection-enabled"),
                                 Some("x-xss-protection-enabled-mode-block"),
                                 Some("x-xss-protection-not-needed-due-to-csp")}
       /\ output.result = Some("x-xss-protection-not-needed-due-to-csp")
          <=> /\ xxssp_header(reqs, expectation).out.result
                   \in {Some("x-xss-protection-not-implemented"),
                        Some("x-xss-protection-disabled")}
              /\ content_security_policy(reqs, csp_default).ret.pass
       /\ (/\ XxsspHeaderValue # None
           /\ XxsspHeaderValue[1] # <<>>
           /\ XxsspHeaderValue[1][1] \notin {"0", "1"})
          => /\ output.result = Some("x-xss-protection-header-invalid")
             /\ output.pass = FALSE

\* A header that does not parse, with a CSP that passes: no fallback.
C8_Witness ==
    /\ Returned("x_xss_protection")
    /\ XxsspHeaderValue = Some(Chars("2; mode=block"))
    /\ content_security_policy(reqs, csp_default).ret.pass
    /\ output.result = Some("x-xss-protection-header-invalid")
    /\ output.pass = FALSE

\* C9: on every path of content_security_policy (header absent, parsed,
\* unparsable) and for every expectation, pass = (expectation == result).
C9_PassIsExpectationMet ==
    Returned("content_security_policy")
    => output.pass = (Some(expectation) = output.result)

\* C10: with a Strict-Transport-Security header, includeSubDomains and preload
\* are booleans, true exactly when the header holds the token, and the absence
\* of either token or the presence of unknown tokens does not make the result
\* hsts-header-invalid.
C10_FlagsAreBooleans ==
    (Returned("strict_transport_security") /\ StsHeaderPresent)
    => /\ output.includeSubDomains
            = Some(\E i \in 1..Len(StsTokens) : StsTokens[i] = Chars("includesubdomains"))
       /\ output.preload = Some(\E i \in 1..Len(StsTokens) : StsTokens[i] = Chars("preload"))
       /\ (StsParsed.exc = NoExc /\ TruthyInt(StsParsed.out["max-age"]))
          => output.result # Some("hsts-header-invalid")

=============================================================================
